---- MODULE Spec2Model ----
(***************************************************************************)
(* Model of src/main.py: a Streamlit dashboard script.                     *)
(*                                                                         *)
(* Streamlit executes the whole script, top to bottom, once when the       *)
(* session starts and once more after every widget interaction.  Each run  *)
(* is one atomic step of the state machine below: Start is the first run   *)
(* (load_data reads the CSV file), Toggle... / Slide... are the later runs *)
(* (one sidebar widget gets a new value, the cached DataFrame is reused).  *)
(* The script body is the operator script(d, cols, u); the elements a run  *)
(* sends to the page are collected, in order, in run.out.                  *)
(*                                                                         *)
(* Numbers: the columns hold integers; ratios and means are exact          *)
(* rationals extended with inf, -inf and nan, as IEEE division gives them. *)
(***************************************************************************)
EXTENDS Integers, Sequences, FiniteSets, TLC

VARIABLES
    started,     \* the session has executed the script at least once
    file,        \* the CSV file given to pd.read_csv: [columns, rows]
    df,          \* the DataFrame load_data returned (cached for the session)
    ui,          \* the values held by the ten sidebar widgets
    run,         \* what the latest script run computed and emitted
    first_view,  \* history: the filtered_df index of the session's first run
    interacted   \* history: some widget has been changed since the first run

vars == <<started, file, df, ui, run, first_view, interacted>>

-----------------------------------------------------------------------------
(* Bounds of the exploration *)

\* rows of a CSV file whose sidebar is explored
MaxRows == 2
\* sidebar widgets that hold a non-default value at the same time
MaxChanged == 1
\* rows (one per Device Model) of the files with many device models
MaxModels == 11

-----------------------------------------------------------------------------
(* Generic helpers *)

Range(s) == {s[i] : i \in 1..Len(s)}

RECURSIVE SumSeq(_)
SumSeq(s) == IF s = <<>> THEN 0 ELSE Head(s) + SumSeq(Tail(s))

MinOf(S) == CHOOSE x \in S : \A y \in S : x <= y
MaxOf(S) == CHOOSE x \in S : \A y \in S : y <= x

Abs(x) == IF x < 0 THEN -x ELSE x

RECURSIVE GCD(_, _)
GCD(a, b) == IF b = 0 THEN a ELSE GCD(b, a % b)

\* the numbers of a set in ascending order
RECURSIVE SeqOfSet(_)
SeqOfSet(S) == IF S = {} THEN <<>>
               ELSE LET x == MinOf(S) IN <<x>> \o SeqOfSet(S \ {x})

-----------------------------------------------------------------------------
(* Floating point values: finite rationals n/d (d > 0, lowest terms), and  *)
(* the IEEE specials.                                                      *)

NaN    == [k |-> "nan",  n |-> 0,  d |-> 1]
PosInf == [k |-> "inf",  n |-> 1,  d |-> 1]
NegInf == [k |-> "-inf", n |-> -1, d |-> 1]

Num(n, d) ==
    LET s == IF d < 0 THEN -1 ELSE 1
        g == GCD(Abs(n), Abs(d))
    IN  [k |-> "num", n |-> (s * n) \div g, d |-> (s * d) \div g]

IsNaN(x) == x.k = "nan"
IsNum(x) == x.k = "num"

\* x / y for integers x, y as float division does it: x/0 is inf with the
\* sign of x, 0/0 is nan, no exception
FloatDiv(x, y) ==
    IF y # 0 THEN Num(x, y)
    ELSE IF x > 0 THEN PosInf
    ELSE IF x < 0 THEN NegInf
    ELSE NaN

FloatAdd(a, b) ==
    IF IsNaN(a) \/ IsNaN(b) THEN NaN
    ELSE IF IsNum(a) /\ IsNum(b) THEN Num(a.n * b.d + b.n * a.d, a.d * b.d)
    ELSE IF IsNum(a) THEN b
    ELSE IF IsNum(b) THEN a
    ELSE IF a = b THEN a
    ELSE NaN

\* a / count for a count > 0
FloatDivInt(a, c) == IF IsNum(a) THEN Num(a.n, a.d * c) ELSE a

\* a < b; FALSE whenever one side is nan
FloatLess(a, b) ==
    IF IsNaN(a) \/ IsNaN(b) THEN FALSE
    ELSE IF a = b THEN FALSE
    ELSE IF a.k = "-inf" \/ b.k = "inf" THEN TRUE
    ELSE IF a.k = "inf" \/ b.k = "-inf" THEN FALSE
    ELSE a.n * b.d < b.n * a.d

RECURSIVE FloatSum(_)
FloatSum(s) == IF s = <<>> THEN Num(0, 1) ELSE FloatAdd(Head(s), FloatSum(Tail(s)))

\* Series.mean(): nan entries are skipped (skipna=True); nan when nothing
\* is left
mean(s) ==
    LET kept == SelectSeq(s, LAMBDA x : ~IsNaN(x))
    IN  IF kept = <<>> THEN NaN ELSE FloatDivInt(FloatSum(kept), Len(kept))

\* f"{x:.Nf}": nan and inf print as the words "nan" and "inf"; a finite
\* value is rounded to N decimals (ties to even) and printed as a number.
\* units is the printed number times 10^N.
format_fixed(x, decimals) ==
    IF ~IsNum(x) THEN [text |-> x.k, units |-> 0]
    ELSE LET p  == IF decimals = 1 THEN 10 ELSE 100
             a  == Abs(x.n) * p
             q  == a \div x.d
             r  == a % x.d
             up == 2 * r > x.d \/ (2 * r = x.d /\ q % 2 = 1)
             m  == IF up THEN q + 1 ELSE q
         IN  [text |-> "number", units |-> IF x.n < 0 THEN -m ELSE m]

-----------------------------------------------------------------------------
(* The CSV file and its columns *)

required_columns ==
    << "Operating System", "Gender", "User Behavior Class", "Device Model",
       "App Usage Time (min/day)", "Screen On Time (hours/day)",
       "Battery Drain (mAh/day)", "Number of Apps Installed",
       "Data Usage (MB/day)", "Age" >>

\* the columns pd.read_csv gives dtype object (text); every other column of
\* the file is numeric
object_columns == {"Operating System", "Gender", "Device Model"}

categorical_filters ==
    << "Operating System", "Gender", "User Behavior Class", "Device Model" >>

numeric_filters ==
    << "App Usage Time (min/day)", "Screen On Time (hours/day)",
       "Battery Drain (mAh/day)", "Number of Apps Installed",
       "Data Usage (MB/day)", "Age" >>

AllColumns == Range(required_columns) \cup {"User ID"}

\* Device Model names in Python's string order (groupby sorts its keys)
DeviceModels ==
    << "Google Pixel 5", "Huawei P40", "Motorola Edge", "Nokia 8", "OnePlus 9",
       "Oppo Find X3", "Realme GT", "Samsung Galaxy S21", "Sony Xperia 1",
       "Vivo X60", "Xiaomi Mi 11", "ZTE Axon 30", "iPhone 12" >>

Row(id, os, gender, class, model, usage, screen, batt, apps, data, age) ==
    ("User ID" :> id) @@
    ("Operating System" :> os) @@ ("Gender" :> gender) @@
    ("User Behavior Class" :> class) @@ ("Device Model" :> model) @@
    ("App Usage Time (min/day)" :> usage) @@
    ("Screen On Time (hours/day)" :> screen) @@
    ("Battery Drain (mAh/day)" :> batt) @@
    ("Number of Apps Installed" :> apps) @@
    ("Data Usage (MB/day)" :> data) @@ ("Age" :> age)

\* the rows the explored files are made of
PoolRows ==
    { Row(1, "Android", "Male",   1, "Google Pixel 5", 60,  8, 1500, 20, 200,  18),
      Row(2, "iOS",     "Female", 5, "iPhone 12",      300, 4, 0,    80, 1000, 55),
      Row(3, "Android", "Female", 5, "Google Pixel 5", 300, 0, 0,    80, 1000, 20),
      Row(4, "iOS",     "Male",   1, "OnePlus 9",      60,  0, 2000, 20, 200,  50),
      Row(5, "Android", "Male",   5, "iPhone 12",      300, 4, 2000, 80, 1000, 55) }

\* row i of a file with one Device Model per row; v selects its screen time
\* and battery drain
WideRow(i, v) ==
    LET odd == i % 2 = 1
    IN  Row(i, IF odd THEN "Android" ELSE "iOS", IF odd THEN "Male" ELSE "Female",
            IF odd THEN 1 ELSE 5, DeviceModels[i],
            IF odd THEN 60 ELSE 300,
            IF v = 1 THEN 8 ELSE 4,
            IF odd THEN 1500 ELSE (IF v = 1 THEN 2000 ELSE 0),
            IF odd THEN 20 ELSE 80, IF odd THEN 200 ELSE 1000,
            IF odd THEN 18 ELSE 55)

column(rows, col) == [i \in 1..Len(rows) |-> rows[i][col]]

\* st.slider needs min_value < max_value: the explored files have at least
\* two different values in every numeric filter column
SlidersUsable(rows) ==
    \A c \in Range(numeric_filters) : Cardinality(Range(column(rows, c))) >= 2

PoolFiles ==
    { [columns |-> AllColumns, rows |-> r] :
        r \in { x \in UNION { [1..n -> PoolRows] : n \in 2..MaxRows } : SlidersUsable(x) } }

WideFiles ==
    { [columns |-> AllColumns, rows |-> [i \in 1..Len(v) |-> WideRow(i, v[i])]] :
        v \in { x \in UNION { [1..n -> {1, 2}] : n \in 2..MaxModels } :
                  Cardinality(Range(x)) = 2 } }

\* files that lack some of the required columns
IncompleteFiles ==
    { [columns |-> c \cup {"User ID"},
       rows |-> [i \in 1..2 |-> [k \in c \cup {"User ID"} |-> WideRow(i, 1)[k]]]] :
        c \in (SUBSET Range(required_columns)) \ {Range(required_columns)} }

Files == PoolFiles \cup WideFiles \cup IncompleteFiles

-----------------------------------------------------------------------------
(* load_data and the column validation *)

\* line 22: the object-dtype columns of the file
cat_cols(f) == f.columns \cap object_columns

\* line 23: df[cat_cols].mode().iloc[0] is taken from a frame that has no
\* row when the file has no object column.  Current pandas raises there;
\* pandas releases whose DataFrame.mode keeps the index of an empty frame
\* return an empty Series and go on.  Both outcomes are kept.
load_data_outcomes(f) ==
    IF cat_cols(f) = {} THEN {"raises", "returns"} ELSE {"returns"}

\* lines 15-26: the files explored have no missing cell, so both fillna
\* calls leave the frame as read
load_data(f) == f.rows

missing_cols(cols) == SelectSeq(required_columns, LAMBDA c : c \notin cols)

-----------------------------------------------------------------------------
(* Sidebar widgets *)

\* Series.unique(): the distinct values in order of first appearance
RECURSIVE unique(_)
unique(s) ==
    IF s = <<>> THEN <<>>
    ELSE LET front == unique(SubSeq(s, 1, Len(s) - 1))
             x     == s[Len(s)]
         IN  IF x \in Range(front) THEN front ELSE Append(front, x)

\* sorted(values) for numbers
sorted(s) == SeqOfSet(Range(s))

\* the option list taken from the rows the previous run kept
multiselect_options_of_view(d, col) ==
    unique([i \in 1..Len(run.filtered_df.index) |-> d[run.filtered_df.index[i]][col]])

\* lines 46-49: the option list of each multiselect
multiselect_options(d, col) ==
    IF col = "User Behavior Class" THEN sorted(unique(column(d, col)))
    ELSE unique(column(d, col))

\* lines 53-56: the (min_val, max_val) a slider is created with
create_slider(d, col) ==
    << MinOf(Range(column(d, col))), MaxOf(Range(column(d, col))) >>

sidebar(d) ==
    [options |-> [c \in Range(categorical_filters) |-> multiselect_options(d, c)],
     bounds  |-> [c \in Range(numeric_filters) |-> create_slider(d, c)]]

\* the value every widget has before the user touches it: all options
\* selected, the whole range
widget_defaults(d) ==
    [c \in Range(categorical_filters) \cup Range(numeric_filters) |->
        IF c \in Range(categorical_filters)
        THEN Range(multiselect_options(d, c))
        ELSE create_slider(d, c)]

NoWidgets == [c \in {} |-> {}]

-----------------------------------------------------------------------------
(* Lines 67-78: the filter *)

\* Series.isin(values): one boolean per row
isin(d, col, values) == [i \in 1..Len(d) |-> d[i][col] \in values]

\* between with the upper bound left out (inclusive="left")
between_left(d, col, range) ==
    [i \in 1..Len(d) |-> range[1] <= d[i][col] /\ d[i][col] < range[2]]

\* Series.between(lo, hi): inclusive="both"
between(d, col, range) ==
    [i \in 1..Len(d) |-> range[1] <= d[i][col] /\ d[i][col] <= range[2]]

\* the & of the ten masks
filter_mask(d, u) ==
    [i \in 1..Len(d) |->
        /\ isin(d, "Operating System", u["Operating System"])[i]
        /\ isin(d, "Gender", u["Gender"])[i]
        /\ isin(d, "User Behavior Class", u["User Behavior Class"])[i]
        /\ isin(d, "Device Model", u["Device Model"])[i]
        /\ between(d, "App Usage Time (min/day)", u["App Usage Time (min/day)"])[i]
        /\ between(d, "Screen On Time (hours/day)", u["Screen On Time (hours/day)"])[i]
        /\ between(d, "Battery Drain (mAh/day)", u["Battery Drain (mAh/day)"])[i]
        /\ between(d, "Number of Apps Installed", u["Number of Apps Installed"])[i]
        /\ between(d, "Data Usage (MB/day)", u["Data Usage (MB/day)"])[i]
        /\ between(d, "Age", u["Age"])[i]]

\* df[mask]: the index labels of the rows whose mask is True, in frame order
RECURSIVE boolean_index(_, _)
boolean_index(mask, n) ==
    IF n = 0 THEN <<>>
    ELSE IF mask[n] THEN Append(boolean_index(mask, n - 1), n)
    ELSE boolean_index(mask, n - 1)

filtered_df(d, u) == boolean_index(filter_mask(d, u), Len(d))

\* the rows of d a frame with this index holds
rows_of(d, index) == [i \in 1..Len(index) |-> d[index[i]]]

-----------------------------------------------------------------------------
(* Page elements and statistics of the report *)

El(kind, name, value) == [kind |-> kind, name |-> name, value |-> value]

\* a column of the frame as floats
series(rows, col) == [i \in 1..Len(rows) |-> Num(rows[i][col], 1)]

\* lines 88-91: the four KPI metrics, each a mean printed with one decimal
kpi_columns ==
    << "App Usage Time (min/day)", "Screen On Time (hours/day)",
       "Data Usage (MB/day)", "Number of Apps Installed" >>

kpi_metrics(rows) ==
    [i \in 1..Len(kpi_columns) |->
        El("metric", kpi_columns[i], format_fixed(mean(series(rows, kpi_columns[i])), 1))]

\* lines 100-108: the two pie charts are drawn from filtered_df itself
pie_charts(index) ==
    << El("chart", "fig_os", index), El("chart", "fig_class", index) >>

\* lines 115-116: the two selectboxes keep their initial choice, the first
\* and the last class of the unfiltered frame
class_compare_1(d) == sorted(unique(column(d, "User Behavior Class")))[1]
class_compare_2(d) ==
    LET classes == sorted(unique(column(d, "User Behavior Class")))
    IN  classes[Len(classes)]

\* line 118
compare_df(d, rows) ==
    LET chosen == {class_compare_1(d), class_compare_2(d)}
    IN  SelectSeq(rows, LAMBDA r : r["User Behavior Class"] \in chosen)

metrics_to_compare ==
    << "Data Usage (MB/day)", "Number of Apps Installed", "Battery Drain (mAh/day)" >>

\* line 122: groupby("User Behavior Class")[metrics].mean(), one row per
\* class present, in ascending class order
compare_grouped(cmp) ==
    LET classes == sorted(column(cmp, "User Behavior Class"))
    IN  [i \in 1..Len(classes) |->
            LET grp == SelectSeq(cmp, LAMBDA r : r["User Behavior Class"] = classes[i])
            IN  [class |-> classes[i],
                 means |-> [m \in Range(metrics_to_compare) |-> mean(series(grp, m))]]]

\* lines 120-134: the chart, or a warning when compare_df is empty
compare_section(d, rows) ==
    LET cmp == compare_df(d, rows)
    IN  IF cmp # <<>>
        THEN << El("chart", "fig_compare", compare_grouped(cmp)) >>
        ELSE << El("warning", "no data for the classes", <<>>) >>

\* lines 164 and 189
age_bins(rows) ==
    LET ages == Range(column(rows, "Age"))
    IN  << MinOf(ages) - 1, 20, 30, 40, 50, MaxOf(ages) >>

age_labels == << "Ate 20", "21-30", "31-40", "41-50", "Acima de 50" >>

\* pd.cut raises ValueError unless the bin edges increase strictly
\* ("bins must increase monotonically", "Bin edges must be unique")
cut_raises(bins) == \E i \in 1..(Len(bins) - 1) : bins[i] >= bins[i + 1]

\* pd.cut(x, bins, right=True): the number of the bin (bins[i], bins[i+1]]
\* that holds x; 0 (a missing value) when no bin holds it
cut(x, bins) ==
    IF \E i \in 1..(Len(bins) - 1) : bins[i] < x /\ x <= bins[i + 1]
    THEN CHOOSE i \in 1..(Len(bins) - 1) : bins[i] < x /\ x <= bins[i + 1]
    ELSE 0

\* line 166 / 191: the 'Age Group' column of the copy
age_group(rows) ==
    LET bins == age_bins(rows)
    IN  [i \in 1..Len(rows) |-> cut(rows[i]["Age"], bins)]

\* line 169: the mean usage of every age group (nan for a group without row)
avg_usage_by_age(rows) ==
    LET grp == age_group(rows)
    IN  [g \in 1..Len(age_labels) |->
            LET idx == SelectSeq([i \in 1..Len(rows) |-> i], LAMBDA i : grp[i] = g)
            IN  [group |-> age_labels[g],
                 mean  |-> mean([j \in 1..Len(idx) |->
                                    Num(rows[idx[j]]["App Usage Time (min/day)"], 1)])]]

\* the Device Models of the frame, in groupby's (sorted) key order
group_keys(rows) ==
    SelectSeq(DeviceModels, LAMBDA m : m \in Range(column(rows, "Device Model")))

\* line 194: groupby(['Age Group', 'Device Model']).size(), one count per
\* age group and device model of the frame
model_counts_by_age(rows) ==
    LET keys == group_keys(rows)
        grp  == age_group(rows)
    IN  [p \in 1..(Len(age_labels) * Len(keys)) |->
            LET g == ((p - 1) \div Len(keys)) + 1
                m == keys[((p - 1) % Len(keys)) + 1]
            IN  [group |-> g, model |-> m,
                 count |-> Cardinality({i \in 1..Len(rows) :
                              grp[i] = g /\ rows[i]["Device Model"] = m})]]

\* Pearson correlation of two columns (DataFrame.corr): nan when fewer than
\* two rows or when one column is constant.  Of a defined coefficient the
\* model keeps the sign only.
corr(rows, a, b) ==
    LET n   == Len(rows)
        x   == column(rows, a)
        y   == column(rows, b)
        sx  == SumSeq(x)
        sy  == SumSeq(y)
        vx  == n * SumSeq([i \in 1..n |-> x[i] * x[i]]) - sx * sx
        vy  == n * SumSeq([i \in 1..n |-> y[i] * y[i]]) - sy * sy
        cov == n * SumSeq([i \in 1..n |-> x[i] * y[i]]) - sx * sy
    IN  IF n < 2 \/ vx = 0 \/ vy = 0 THEN [text |-> "nan", sign |-> 0]
        ELSE [text |-> "number", sign |-> IF cov > 0 THEN 1 ELSE IF cov < 0 THEN -1 ELSE 0]

\* line 212
corr_matrix(rows) ==
    [a \in Range(numeric_filters) |-> [b \in Range(numeric_filters) |-> corr(rows, a, b)]]

\* line 255: Screen On Time * 1000 / Battery Drain, row by row
efficiency(rows) ==
    [i \in 1..Len(rows) |->
        FloatDiv(rows[i]["Screen On Time (hours/day)"] * 1000,
                 rows[i]["Battery Drain (mAh/day)"])]

\* groupby('Device Model')['Efficiency (h/mAh)'].mean()
efficiency_by_model(rows) ==
    LET keys == group_keys(rows)
        eff  == efficiency(rows)
    IN  [g \in 1..Len(keys) |->
            LET idx == SelectSeq([i \in 1..Len(rows) |-> i],
                                 LAMBDA i : rows[i]["Device Model"] = keys[g])
            IN  [model |-> keys[g],
                 eff   |-> mean([j \in 1..Len(idx) |-> eff[idx[j]]])]]

\* x goes before e in a descending order that keeps nan last
sorts_before(x, e) == ~IsNaN(x.eff) /\ (IsNaN(e.eff) \/ FloatLess(e.eff, x.eff))

RECURSIVE insert_sorted(_, _)
insert_sorted(x, s) ==
    IF s = <<>> THEN <<x>>
    ELSE IF sorts_before(x, Head(s)) THEN <<x>> \o s
    ELSE <<Head(s)>> \o insert_sorted(x, Tail(s))

\* x goes before e in an ascending order that keeps nan last
sorts_before_ascending(x, e) == ~IsNaN(x.eff) /\ (IsNaN(e.eff) \/ FloatLess(x.eff, e.eff))

RECURSIVE insert_ascending(_, _)
insert_ascending(x, s) ==
    IF s = <<>> THEN <<x>>
    ELSE IF sorts_before_ascending(x, Head(s)) THEN <<x>> \o s
    ELSE <<Head(s)>> \o insert_ascending(x, Tail(s))

\* sort_values() with its default ascending=True
RECURSIVE sort_values_ascending(_)
sort_values_ascending(s) ==
    IF s = <<>> THEN <<>>
    ELSE insert_ascending(s[Len(s)], sort_values_ascending(SubSeq(s, 1, Len(s) - 1)))

\* Series.sort_values(ascending=False): descending, nan last; equal means
\* keep the order they arrive in (no claim rests on the order of ties)
RECURSIVE sort_values(_)
sort_values(s) ==
    IF s = <<>> THEN <<>>
    ELSE insert_sorted(s[Len(s)], sort_values(SubSeq(s, 1, Len(s) - 1)))

\* the ranking sorted with sort_values()'s default, ascending=True
eff_model_ascending(rows) == sort_values_ascending(efficiency_by_model(rows))

\* line 256
eff_model(rows) == sort_values(efficiency_by_model(rows))

\* lines 257-259
efficiency_insight(rows) ==
    LET best_eff == eff_model(rows)[1]
    IN  IF eff_model(rows) # <<>>
        THEN << El("success", "Maior Eficiencia",
                   [model |-> best_eff.model, eff |-> format_fixed(best_eff.eff, 2)]) >>
        ELSE <<>>

\* lines 262-263
corr_usage_battery(rows) ==
    corr(rows, "App Usage Time (min/day)", "Battery Drain (mAh/day)")

correlation_insight(rows) ==
    << El("info", "Correlacao Forte", corr_usage_battery(rows)) >>

\* lines 266-273
comparison_insight(d, rows) ==
    LET cmp  == compare_df(d, rows)
        avg1 == mean(series(SelectSeq(cmp, LAMBDA r :
                    r["User Behavior Class"] = class_compare_1(d)), "Data Usage (MB/day)"))
        avg2 == mean(series(SelectSeq(cmp, LAMBDA r :
                    r["User Behavior Class"] = class_compare_2(d)), "Data Usage (MB/day)"))
    IN  IF FloatLess(Num(0, 1), avg1) /\ ~IsNaN(avg1) /\ ~IsNaN(avg2)
        THEN << El("warning", "Comparativo de Consumo",
                   format_fixed(Num(avg2.n * avg1.d, avg2.d * avg1.n), 1)) >>
        ELSE <<>>

-----------------------------------------------------------------------------
(* One run of the script.  Static text (titles, separators, the sidebar    *)
(* header) is not recorded; every st.error / st.warning / st.metric /      *)
(* st.plotly_chart / st.success / st.info of the run is.                   *)

NoSidebar == [built |-> FALSE, options |-> <<>>, bounds |-> <<>>]
NoFrame   == [index |-> <<>>, columns |-> {}]

\* a run that ends before the report starts
early_run(status, out, side, frame) ==
    [status |-> status, out |-> out, sidebar |-> side, filtered_df |-> frame,
     summarized |-> FALSE, age_group |-> <<>>, model_counts_by_age |-> <<>>,
     efficiency |-> <<>>, eff_model |-> <<>>]

NoRun == early_run("none", <<>>, NoSidebar, NoFrame)

\* the empty branch without st.stop(): the warning, then the KPI means of
\* no row
empty_result_goes_on(side, cols) ==
    [status |-> "done",
     out |-> << El("warning", "Nenhum dado encontrado", <<>>) >>
             \o [i \in 1..Len(kpi_columns) |->
                    El("metric", kpi_columns[i], format_fixed(NaN, 1))],
     sidebar |-> side, filtered_df |-> [index |-> <<>>, columns |-> cols],
     summarized |-> TRUE, age_group |-> <<>>, model_counts_by_age |-> <<>>,
     efficiency |-> <<>>, eff_model |-> <<>>]

\* lines 81-83: filtered_df is empty; st.warning, then st.stop()
empty_result(side, cols) ==
    early_run("stopped", << El("warning", "Nenhum dado encontrado", <<>>) >>,
              side, [index |-> <<>>, columns |-> cols])

\* load_data raised: Streamlit shows the exception and the run is over
load_failed_run ==
    early_run("exception", << El("exception", "load_data", <<>>) >>, NoSidebar, NoFrame)

\* lines 85-154: what the report shows before the age charts
report_head(d, index) ==
    LET rows == rows_of(d, index)
    IN  kpi_metrics(rows) \o pie_charts(index)
            \o compare_section(d, rows) \o << El("chart", "fig_box", index) >>

\* lines 159-275, reached when pd.cut does not raise
report_tail(d, index) ==
    LET rows == rows_of(d, index)
    IN  << El("chart", "fig_bar_age", avg_usage_by_age(rows)),
           El("chart", "fig_stacked_bar", model_counts_by_age(rows)),
           El("chart", "fig_heatmap", corr_matrix(rows)),
           El("chart", "fig_scatter", index),
           El("info", "Contexto Analitico", <<>>) >>
        \o efficiency_insight(rows) \o correlation_insight(rows)
        \o comparison_insight(d, rows)
        \o << El("markdown", "Fim do Relatorio", <<>>) >>

\* lines 85-275 on a non-empty filtered_df
report(d, cols, side, index) ==
    LET rows == rows_of(d, index)
    IN  IF cut_raises(age_bins(rows))
        THEN \* line 166 raises ValueError: the run ends with what was shown so far
             [status |-> "exception",
              out |-> report_head(d, index) \o << El("exception", "pd.cut", age_bins(rows)) >>,
              sidebar |-> side,
              filtered_df |-> [index |-> index, columns |-> cols],
              summarized |-> TRUE, age_group |-> <<>>, model_counts_by_age |-> <<>>,
              efficiency |-> <<>>, eff_model |-> <<>>]
        ELSE [status |-> "done",
              out |-> report_head(d, index) \o report_tail(d, index),
              sidebar |-> side,
              \* line 255 assigns the new column to filtered_df itself
              filtered_df |-> [index |-> index,
                               columns |-> cols \cup {"Efficiency (h/mAh)"}],
              summarized |-> TRUE,
              age_group |-> age_group(rows),
              model_counts_by_age |-> model_counts_by_age(rows),
              efficiency |-> efficiency(rows),
              eff_model |-> eff_model(rows)]

\* lines 30-275: the script after load_data returned d, with the widget
\* values u (read only when the sidebar is built)
script(d, cols, u) ==
    IF missing_cols(cols) # <<>>
    THEN \* lines 38-40
         early_run("stopped", << El("error", "Erro Critico", missing_cols(cols)) >>,
                   NoSidebar, NoFrame)
    ELSE LET side  == [built |-> TRUE, options |-> sidebar(d).options,
                       bounds |-> sidebar(d).bounds]
             index == filtered_df(d, u)
         IN  IF index = <<>>
             THEN empty_result(side, cols)
             ELSE report(d, cols, side, index)

-----------------------------------------------------------------------------
(* The session *)

Init ==
    /\ started = FALSE
    /\ file = [columns |-> {}, rows |-> <<>>]
    /\ df = <<>>
    /\ ui = NoWidgets
    /\ run = NoRun
    /\ first_view = <<>>
    /\ interacted = FALSE

\* the first run of the script: load_data reads the file
Start ==
    /\ ~started
    /\ \E f \in Files, outcome \in {"raises", "returns"} :
          /\ outcome \in load_data_outcomes(f)
          /\ started' = TRUE
          /\ file' = f
          /\ IF outcome = "raises"
             THEN /\ df' = <<>>
                  /\ ui' = NoWidgets
                  /\ run' = load_failed_run
             ELSE /\ df' = load_data(f)
                  /\ ui' = IF missing_cols(f.columns) = <<>>
                           THEN widget_defaults(load_data(f)) ELSE NoWidgets
                  /\ run' = script(df', f.columns, ui')
          /\ first_view' = run'.filtered_df.index
          /\ interacted' = FALSE

\* the number of widgets that do not hold their default value
Changed(d, u) ==
    LET defaults == widget_defaults(d)
    IN  Cardinality({c \in DOMAIN u : u[c] # defaults[c]})

\* a widget got the value u[col]: Streamlit runs the script again, with the
\* DataFrame st.cache_data kept
Rerun(u) ==
    /\ started
    /\ run.sidebar.built
    /\ Len(df) <= MaxRows
    /\ Changed(df, u) <= MaxChanged
    /\ ui' = u
    /\ run' = script(df, file.columns, u)
    /\ interacted' = TRUE
    /\ UNCHANGED <<started, file, df, first_view>>

\* the user adds or removes one option of a multiselect
Toggle(col) ==
    /\ run.sidebar.built
    /\ \E v \in Range(run.sidebar.options[col]) :
          Rerun([ui EXCEPT ![col] = IF v \in @ THEN @ \ {v} ELSE @ \cup {v}])

\* the positions a slider handle is moved to: the values of the column
\* (a position between two of them selects the same rows as one of them)
slider_stops(d, col) == Range(column(d, col))

\* the user moves the handles of a range slider
Slide(col) ==
    /\ run.sidebar.built
    /\ \E lo \in slider_stops(df, col), hi \in slider_stops(df, col) :
          /\ lo <= hi
          /\ <<lo, hi>> # ui[col]
          /\ Rerun([ui EXCEPT ![col] = <<lo, hi>>])

ToggleOperatingSystem == Toggle("Operating System")
ToggleGender          == Toggle("Gender")
ToggleBehaviorClass   == Toggle("User Behavior Class")
ToggleDeviceModel     == Toggle("Device Model")
SlideAppUsage         == Slide("App Usage Time (min/day)")
SlideScreenOn         == Slide("Screen On Time (hours/day)")
SlideBatteryDrain     == Slide("Battery Drain (mAh/day)")
SlideAppsInstalled    == Slide("Number of Apps Installed")
SlideDataUsage        == Slide("Data Usage (MB/day)")
SlideAge              == Slide("Age")

Next ==
    \/ Start
    \/ ToggleOperatingSystem
    \/ ToggleGender
    \/ ToggleBehaviorClass
    \/ ToggleDeviceModel
    \/ SlideAppUsage
    \/ SlideScreenOn
    \/ SlideBatteryDrain
    \/ SlideAppsInstalled
    \/ SlideDataUsage
    \/ SlideAge

Spec == Init /\ [][Next]_vars

-----------------------------------------------------------------------------
(* Vocabulary of the properties *)

\* the record r satisfies every predicate of the criteria u
Satisfies(r, u) ==
    /\ \A c \in Range(categorical_filters) : r[c] \in u[c]
    /\ \A c \in Range(numeric_filters) : u[c][1] <= r[c] /\ r[c] <= u[c][2]

\* the records of the dataset the criteria select
Selected == {i \in 1..Len(df) : Satisfies(df[i], ui)}

View == run.filtered_df.index

ViewRows == [i \in 1..Len(View) |-> df[View[i]]]

\* the elements of the report: KPIs, charts and insight sentences
ReportKinds == {"metric", "chart", "success", "info"}

ReportOutput == {i \in 1..Len(run.out) : run.out[i].kind \in ReportKinds}

\* the run went through the whole script
Completed == run.status = "done"

\* the texts a completed report prints for its statistics
PrintedTexts ==
    {run.out[i].value.text : i \in {j \in 1..Len(run.out) :
         run.out[j].kind = "metric" \/ run.out[j].name = "Correlacao Forte"
         \/ run.out[j].name = "Comparativo de Consumo"}}
    \cup {run.out[i].value.eff.text : i \in {j \in 1..Len(run.out) :
                                              run.out[j].name = "Maior Eficiencia"}}
    \cup UNION {{run.out[i].value[a][b].text : a, b \in Range(numeric_filters)} :
                 i \in {j \in 1..Len(run.out) : run.out[j].name = "fig_heatmap"}}

ModelsInView == {ViewRows[i]["Device Model"] : i \in 1..Len(ViewRows)}

ColumnValues(c) == {df[i][c] : i \in 1..Len(df)}

\* every widget holds its widest value: all values of the dataset allowed,
\* every range from the dataset's minimum to its maximum
CriteriaFull ==
    /\ \A c \in Range(categorical_filters) : ui[c] = ColumnValues(c)
    /\ \A c \in Range(numeric_filters) :
          /\ ui[c][1] \in ColumnValues(c) /\ ui[c][2] \in ColumnValues(c)
          /\ \A v \in ColumnValues(c) : ui[c][1] <= v /\ v <= ui[c][2]

RankingSorted ==
    \A i, j \in 1..Len(run.eff_model) :
        i < j => /\ ~FloatLess(run.eff_model[i].eff, run.eff_model[j].eff)
                 /\ (IsNaN(run.eff_model[i].eff) => IsNaN(run.eff_model[j].eff))

\* the efficiency insight names the first entry of the ranking, and no
\* model of the view has a greater mean
InsightNamesBest ==
    /\ \E k \in 1..Len(run.out) :
          /\ run.out[k].name = "Maior Eficiencia"
          /\ run.out[k].value.model = run.eff_model[1].model
    /\ \A j \in 1..Len(run.eff_model) :
          ~FloatLess(run.eff_model[1].eff, run.eff_model[j].eff)

-----------------------------------------------------------------------------
(* Properties *)

\* C1: once the sidebar is built, the filtered view holds exactly the
\* records of the dataset that satisfy every predicate of the criteria
\* (range bounds included), each once, in the dataset's order.
FilterSelectsExactly ==
    run.sidebar.built =>
        /\ \A k \in 1..Len(View) : View[k] \in Selected
        /\ \A i \in Selected : Cardinality({k \in 1..Len(View) : View[k] = i}) = 1
        /\ \A j, k \in 1..Len(View) : j < k => View[j] < View[k]

\* C1 witness: a narrowed range keeps a record that lies exactly on its upper
\* bound and drops another record
FilterBoundaryKept ==
    /\ run.sidebar.built
    /\ View # <<>>
    /\ Len(View) < Len(df)
    /\ \E c \in Range(numeric_filters), k \in 1..Len(View) :
          /\ ui[c] # run.sidebar.bounds[c]
          /\ df[View[k]][c] = ui[c][2]

\* C2: when the criteria select no record, the run shows the empty-result
\* warning and nothing else, starts no report and ends by st.stop (no
\* exception).
EmptyViewStops ==
    (started /\ run.sidebar.built /\ Selected = {}) =>
        /\ run.status = "stopped"
        /\ run.out = << El("warning", "Nenhum dado encontrado", <<>>) >>
        /\ ~run.summarized
        /\ ReportOutput = {}

\* C2 witness: a run whose criteria select no record
EmptyViewReached ==
    /\ started /\ run.sidebar.built /\ interacted
    /\ Selected = {}
    /\ run.status = "stopped"

\* C3: a file that lacks required columns gets an error naming exactly the
\* missing required columns, and the run halts before the sidebar, the
\* filter and the report.
MissingColumnsReported ==
    (started /\ Range(required_columns) \ file.columns # {}) =>
        /\ run.status = "stopped"
        /\ Len(run.out) = 1
        /\ run.out[1].kind = "error"
        /\ Range(run.out[1].value) = Range(required_columns) \ file.columns
        /\ ~run.sidebar.built
        /\ View = <<>>
        /\ ReportOutput = {}

\* C4: a run has shown report output only if it went through the whole
\* script: a run that fails has shown none.
OutputIsAtomic == ReportOutput # {} => Completed

\* C5: a completed report prints no statistic as nan or inf.
DegenerateStatisticNotPrinted == Completed => PrintedTexts \subseteq {"number"}

\* C6: the mean efficiency of every device model is the mean of
\* Screen On Time * 1000 / Battery Drain over the model's records whose
\* Battery Drain is not zero.
ZeroDrainExcludedFromMean ==
    Completed =>
        \A k \in 1..Len(run.eff_model) :
            LET kept == SelectSeq(ViewRows, LAMBDA r :
                            /\ r["Device Model"] = run.eff_model[k].model
                            /\ r["Battery Drain (mAh/day)"] # 0)
            IN  run.eff_model[k].eff =
                    mean([i \in 1..Len(kept) |->
                            Num(kept[i]["Screen On Time (hours/day)"] * 1000,
                                kept[i]["Battery Drain (mAh/day)"])])

AgeBinningSucceeds ==
    run.summarized =>
        /\ Completed
        /\ Len(run.age_group) = Len(View)
        /\ LET ages == {ViewRows[i]["Age"] : i \in 1..Len(ViewRows)}
               b    == << MinOf(ages) - 1, 20, 30, 40, 50, MaxOf(ages) >>
           IN  \A i \in 1..Len(View) :
                   /\ run.age_group[i] \in 1..5
                   /\ b[run.age_group[i]] < ViewRows[i]["Age"]
                   /\ ViewRows[i]["Age"] <= b[run.age_group[i] + 1]
        /\ SumSeq([p \in 1..Len(run.model_counts_by_age) |->
                      run.model_counts_by_age[p].count]) = Len(View)

\* C9: the options of every multiselect and the bounds of every slider are
\* those of the whole dataset, the view is determined by the dataset and the
\* current criteria, and with the criteria back at their widest the view is
\* the one of the first run.
SidebarFromDataset ==
    run.sidebar.built =>
        /\ \A c \in Range(categorical_filters) :
              /\ Range(run.sidebar.options[c]) = ColumnValues(c)
              /\ Len(run.sidebar.options[c]) = Cardinality(ColumnValues(c))
        /\ \A c \in Range(numeric_filters) :
              /\ run.sidebar.bounds[c][1] \in ColumnValues(c)
              /\ run.sidebar.bounds[c][2] \in ColumnValues(c)
              /\ \A v \in ColumnValues(c) :
                    run.sidebar.bounds[c][1] <= v /\ v <= run.sidebar.bounds[c][2]
        /\ Range(View) = Selected
        /\ CriteriaFull => (View = first_view /\ Len(View) = Len(df))

\* C9 witness: after some interaction the criteria are back at their widest
\* and the view is the whole dataset again
WidestCriteriaRestored ==
    /\ interacted
    /\ run.sidebar.built
    /\ CriteriaFull
    /\ View = first_view
    /\ Len(View) = Len(df)

\* C10: the dataset stays as loaded, and a completed report leaves the
\* filtered view with the columns it had right after filtering, those of
\* the dataset.
ReportLeavesViewUnchanged ==
    /\ (started /\ run # load_failed_run) => df = file.rows
    /\ Completed => run.filtered_df.columns = file.columns

====
